---- MODULE Spec2Model ----
(***************************************************************************)
(* State-machine model of runbeam-cli: the device-login polling flow       *)
(* (src/commands/auth.rs), the credential file (src/storage.rs) and the    *)
(* JWKS cache (src/jwt.rs).                                                *)
(*                                                                         *)
(* Option<T> values are modelled as sequences: None is << >> and Some(v)   *)
(* is <<v>>.                                                               *)
(***************************************************************************)
EXTENDS Integers, Sequences, FiniteSets, TLC

VARIABLES
    \* ---- login() in src/commands/auth.rs ----
    pc,            \* position of the login invocation / its outcome
    store,         \* content of ~/.runbeam/auth.json: None or Some(CliAuth)
    storeAtStart,  \* history: store when the current login invocation began
    expiresIn,     \* start_data.expires_in_seconds, in 1/Scale seconds
    maxAttempts,   \* max_attempts
    attempt,       \* loop variable of the polling loop
    lastReply,     \* last check-login reply of this invocation (Option)
    err,           \* which error login returned ("none" while running / Ok)
    errMsg,        \* the message of that error (NoMsg while running / Ok)
    trace,         \* history: calls made by the current invocation, in order
    now,           \* SystemTime::now() in seconds
    runs,          \* number of login invocations so far
    \* ---- JWKS cache in src/jwt.rs ----
    cacheFile,     \* ~/.runbeam/jwks_cache.json: None, Some(JwksCache) or Some("corrupt")
    build,         \* build profile: overflow checks on ("debug") or off ("release")
    ttlEnv,        \* environment variable RUNBEAM_JWKS_TTL (Option<String>)
    jwksOut,       \* history: the last get_jwks call and what it returned
    \* ---- write-temp-then-rename across processes (src/storage.rs, src/jwt.rs) ----
    dir,           \* directory ~/.runbeam: path -> inode number (0: no such file)
    inodes,        \* inode number -> file content (sequence of blocks)
    wpc,           \* per writer process: position in save_auth / save_jwks_cache
    wfile,         \* per writer process: the target path it saves
    woff,          \* per writer process: offset of its open file handle
    wfd,           \* per writer process: inode of its open file handle
    observed,      \* history: what the last read of a target path returned (Option)
    renames,       \* history: writers whose rename succeeded, in order
    \* ---- validate_jwt_token and normalize_issuer in src/jwt.rs ----
    token,         \* the token handed to validate_jwt_token
    valOut,        \* history: the last validate_jwt_token call and what it returned
    issOut,        \* history: the last normalize_issuer call and what it returned
    \* ---- Harmony registry in src/storage.rs, verify in src/commands/auth.rs ----
    harmonyFile,   \* ~/.runbeam/harmony.json: None or Some(list of HarmonyInstance)
    regOut,        \* history: the last registry operation and what it changed
    verOut         \* history: how the last `runbeam verify` ended ("none" before any)

loginVars == <<pc, store, storeAtStart, expiresIn, maxAttempts, attempt,
               lastReply, err, errMsg, trace, runs>>
cacheVars == <<cacheFile, build, ttlEnv, jwksOut>>
fsVars == <<dir, inodes, wpc, wfile, woff, wfd, observed, renames>>
valVars == <<token, valOut, issOut>>
cmdVars == <<harmonyFile, regOut, verOut>>

----------------------------------------------------------------------------
\* Bounds of the model

\* login invocations explored
MaxRuns == 1
\* expires_in_seconds is an f64: it is modelled in fixed point, Scale units per second
Scale == 2
\* largest expires_in_seconds a start-login reply carries, in whole seconds
MaxExpiresSecs == 12

\* Program constants

\* poll_interval = Duration::from_secs(5)
PollInterval == 5

None == << >>
Some(v) == <<v>>
IsSome(o) == Len(o) = 1
Unwrap(o) == o[1]

\* a file whose content does not parse (serde_json::from_str fails)
Corrupt == [corrupt |-> TRUE]
IsCorrupt(c) == "corrupt" \in DOMAIN c
\* load_auth() returns Ok(Some(auth)) on this file content
HasCredential(file) == IsSome(file) /\ ~IsCorrupt(Unwrap(file))

Tokens == {"t1", "t2"}
Users == {"u1"}
\* values of expires_in in a check-login reply (i64 seconds)
ExpiresInValues == {60}
\* clock readings at process start
StartTimes == {100}

OptionOf(S) == {None} \cup {Some(v) : v \in S}

\* expires_in_seconds values the server may send, in 1/Scale seconds
\* (negative, zero, fractional and whole values)
StartExpiries == (-1) .. (MaxExpiresSecs * Scale)

\* CheckLoginResponse bodies of successful (2xx, parsable) check-login replies
CheckReplies ==
    [status : {"authenticated"}, token : OptionOf(Tokens),
     expires_in : OptionOf(ExpiresInValues), user : OptionOf(Users),
     message : {None}]
    \cup
    [status : {"pending"}, token : {None},
     expires_in : {None}, user : {None}, message : {None}]
    \cup
    [status : {"expired", "invalid"}, token : OptionOf({"t1"}),
     expires_in : {None}, user : {None}, message : {None}]
    \cup
    [status : {"bogus"}, token : {None}, expires_in : {None}, user : {None},
     message : OptionOf({"msg"})]

\* Ways the start-login round trip ends without a usable body: send() fails,
\* a non-success status, a body that does not parse
TransportFailures == {"NetworkError", "Status500", "Parse"}

\* What one GET check-login round trip yields: send() fails; a non-success
\* status with some body text (possibly one that reads like a login reply);
\* or a success status with a body that does not parse (None) or parses
CheckResponses ==
    {[http |-> "NetworkError", body |-> None]}
    \cup
    [http : {"Status500"},
     body : {Some([status |-> "authenticated", token |-> Some("t2"),
                   expires_in |-> None, user |-> None, message |-> None])}]
    \cup
    [http : {"Ok"}, body : OptionOf(CheckReplies)]

Terminal == {"Authenticated", "Expired", "Invalid", "TimedOut", "Failed"}
InRun == {"NotStarted", "StartLogin", "AwaitingBrowser", "Polling", "Validating"}

\* a call: what was called, on which token, and how it ended
Event(op, arg, res) == [op |-> op, arg |-> arg, res |-> res]
\* number of calls of kind op in a trace
Count(tr, op) == Cardinality({i \in DOMAIN tr : tr[i].op = op})
\* the network operations login can perform
NetworkOps == {"start_login", "check_login", "validate"}

----------------------------------------------------------------------------
\* Pure computations of login()

\* `x as u64` on an f64: truncates toward zero, negative values saturate to 0
AsU64(h) == IF h < 0 THEN 0 ELSE h \div Scale

\* MaxAttempts with the f64 rounded to nearest instead of truncated
MaxAttempts_Rounded(h) == (((2 * h + Scale) \div (2 * Scale)) \div PollInterval) + 2

\* max_attempts = ((expires_in_seconds as u64) / poll_interval.as_secs()) + 2
MaxAttempts(h) == (AsU64(h) \div PollInterval) + 2

\* ExpiresAt storing the lifetime instead of the timestamp
ExpiresAt_Lifetime(t, e) == e

\* expires_at = check_data.expires_in.map(|seconds| now + seconds)
ExpiresAt(t, e) == IF IsSome(e) THEN Some(t + Unwrap(e)) ELSE None

\* CliAuth built from an authenticated reply carrying a token
MakeAuth(reply, t) ==
    [token |-> Unwrap(reply.token),
     expires_at |-> ExpiresAt(t, reply.expires_in),
     user |-> reply.user]

\* an anyhow error message: the format string, the text argument it
\* interpolates ("" without one) and the response body it quotes (None without one)
Msg(fmt, arg, body) == [fmt |-> fmt, arg |-> arg, body |-> body]
\* no error
NoMsg == Msg("", "", None)

\* the message login() fails with when the start-login round trip ends in f
StartLoginMsg(f) ==
    CASE f = "NetworkError" -> Msg("failed to connect to {}", "start_url", None)
      [] f = "Parse" -> Msg("failed to parse start login response", "", None)
      [] OTHER -> Msg("Failed to start login: HTTP {} - {}", f, None)

\* storage::save_auth: the credential file is replaced by the serialized auth
save_auth(auth) == Some(auth)

\* storage::clear_auth: the credential file is removed
clear_auth == None

----------------------------------------------------------------------------
\* Before any login invocation: auth.json may be absent, hold a credential of
\* an earlier login, or hold content that does not parse

LoginInit ==
    /\ pc = "Idle"
    /\ store \in {None, Some(Corrupt)} \cup
                 {Some([token |-> "t1", expires_at |-> e, user |-> Some("u1")]) :
                    e \in {None, Some(500)}}
    /\ storeAtStart = store
    /\ expiresIn = 0
    /\ maxAttempts = 0
    /\ attempt = 0
    /\ lastReply = None
    /\ err = "none"
    /\ errMsg = NoMsg
    /\ trace = << >>
    /\ runs = 0

\* `runbeam login` is invoked (a new process): login() starts
LoginInvoke ==
    /\ pc \in {"Idle"} \cup Terminal
    /\ runs < MaxRuns
    /\ pc' = "NotStarted"
    /\ runs' = runs + 1
    /\ storeAtStart' = store
    /\ expiresIn' = 0
    /\ maxAttempts' = 0
    /\ attempt' = 0
    /\ lastReply' = None
    /\ err' = "none"
    /\ errMsg' = NoMsg
    /\ trace' = << >>
    /\ UNCHANGED <<store, now>>
    /\ UNCHANGED <<cacheVars, fsVars, valVars, cmdVars>>

\* `runbeam logout`: logout() removes the stored credential
Logout ==
    /\ pc \in {"Idle"} \cup Terminal
    /\ store # None
    /\ store' = clear_auth
    /\ pc' = "Idle"
    /\ UNCHANGED <<storeAtStart, expiresIn, maxAttempts, attempt,
                   lastReply, err, errMsg, trace, now, runs>>
    /\ UNCHANGED <<cacheVars, fsVars, valVars, cmdVars>>

\* CheckExisting short-circuiting on any stored credential, unvalidated
CheckExisting_NoValidation ==
    /\ pc = "NotStarted"
    /\ CASE HasCredential(store) ->
              /\ trace' = Append(trace, Event("load_auth", "-", "some"))
              /\ pc' = "Authenticated"
              /\ UNCHANGED <<err, errMsg>>
         [] IsSome(store) /\ IsCorrupt(Unwrap(store)) ->
              /\ trace' = Append(trace, Event("load_auth", "-", "err"))
              /\ pc' = "Failed"
              /\ err' = "LoadAuth"
              /\ errMsg' = Msg("parsing {}", "auth.json", None)
         [] OTHER ->
              /\ trace' = Append(trace, Event("load_auth", "-", "none"))
              /\ pc' = "StartLogin"
              /\ UNCHANGED <<err, errMsg>>
    /\ UNCHANGED <<store, storeAtStart, expiresIn, maxAttempts, attempt,
                   lastReply, now, runs>>
    /\ UNCHANGED <<cacheVars, fsVars, valVars, cmdVars>>

\* login(): load_auth, and validation of an existing credential
\* (the validator is the SDK's validate_jwt_token; its verdict is an input)
CheckExisting ==
    /\ pc = "NotStarted"
    /\ CASE HasCredential(store) ->
              \E valid \in BOOLEAN :
                /\ trace' = trace \o <<Event("load_auth", "-", "some"),
                                       Event("validate", Unwrap(store).token,
                                             IF valid THEN "ok" ELSE "err")>>
                /\ pc' = IF valid THEN "Authenticated" ELSE "StartLogin"
                /\ UNCHANGED <<err, errMsg>>
         [] IsSome(store) /\ IsCorrupt(Unwrap(store)) ->
              /\ trace' = Append(trace, Event("load_auth", "-", "err"))
              /\ pc' = "Failed"
              /\ err' = "LoadAuth"
              /\ errMsg' = Msg("parsing {}", "auth.json", None)
         [] OTHER ->
              /\ trace' = Append(trace, Event("load_auth", "-", "none"))
              /\ pc' = "StartLogin"
              /\ UNCHANGED <<err, errMsg>>
    /\ UNCHANGED <<store, storeAtStart, expiresIn, maxAttempts, attempt,
                   lastReply, now, runs>>
    /\ UNCHANGED <<cacheVars, fsVars, valVars, cmdVars>>

\* login() step 1: POST {base_url}/api/cli/start-login
StartLogin ==
    /\ pc = "StartLogin"
    /\ \/ \E f \in TransportFailures :
            /\ trace' = Append(trace, Event("start_login", "-", f))
            /\ pc' = "Failed"
            /\ err' = "StartLogin"
            /\ errMsg' = StartLoginMsg(f)
            /\ UNCHANGED expiresIn
       \/ \E h \in StartExpiries :
            /\ trace' = Append(trace, Event("start_login", "-", "Ok"))
            /\ pc' = "AwaitingBrowser"
            /\ expiresIn' = h
            /\ UNCHANGED <<err, errMsg>>
    /\ UNCHANGED <<store, storeAtStart, maxAttempts, attempt, lastReply, now, runs>>
    /\ UNCHANGED <<cacheVars, fsVars, valVars, cmdVars>>

\* login() step 2: open::that_detached(verification_url), then the
\* expires_in_seconds <= 0 check and the computation of max_attempts
OpenBrowser ==
    /\ pc = "AwaitingBrowser"
    /\ \E opened \in BOOLEAN :
         trace' = Append(trace, Event("open_browser", "-", IF opened THEN "ok" ELSE "err"))
    /\ IF expiresIn <= 0
       THEN /\ pc' = "Failed"
            /\ err' = "DeviceExpired"
            /\ errMsg' = Msg("Device token has already expired. Please try again.", "", None)
            /\ UNCHANGED <<maxAttempts, attempt>>
       ELSE /\ pc' = "Polling"
            /\ maxAttempts' = MaxAttempts(expiresIn)
            /\ attempt' = 1
            /\ UNCHANGED <<err, errMsg>>
    /\ UNCHANGED <<store, storeAtStart, expiresIn, lastReply, now, runs>>
    /\ UNCHANGED <<cacheVars, fsVars, valVars, cmdVars>>

\* AfterPending with a loop that never ends
AfterPending_Unbounded(a, m) == "Polling"

\* `for attempt in 1..=max_attempts` after `continue` in iteration a of m:
\* the next iteration, or the bail that follows the loop
AfterPending(a, m) == IF a < m THEN "Polling" ELSE "TimedOut"

\* the parsed CheckLoginResponse of a response, if the response has one:
\* send() succeeded, the status is a success, and the body parses
ParsedBody(resp) == IF resp.http = "Ok" THEN resp.body ELSE None

\* Arm taking "authenticated" without a token for "pending"
Arm_TokenAwaited(resp) ==
    CASE resp.http = "NetworkError" -> "Network"
      [] resp.http = "Status500" -> "HttpStatus"
      [] resp.http = "Ok" /\ resp.body = None -> "Parse"
      [] OTHER ->
           LET r == Unwrap(resp.body) IN
           CASE r.status = "authenticated" /\ IsSome(r.token) -> "authenticated"
             [] r.status \in {"authenticated", "pending"} -> "pending"
             [] r.status = "expired" -> "expired"
             [] r.status = "invalid" -> "invalid"
             [] OTHER -> "Unexpected"

\* Arm reading the login status out of the body whatever the HTTP status
Arm_IgnoreStatus(resp) ==
    CASE resp.http = "NetworkError" -> "Network"
      [] resp.body = None -> "Parse"
      [] OTHER ->
           LET r == Unwrap(resp.body) IN
           CASE r.status = "authenticated" /\ IsSome(r.token) -> "authenticated"
             [] r.status = "authenticated" -> "MissingToken"
             [] r.status = "pending" -> "pending"
             [] r.status = "expired" -> "expired"
             [] r.status = "invalid" -> "invalid"
             [] OTHER -> "Unexpected"

\* the arm of `match check_data.status.as_str()` a response reaches
\* (or the early return taken before the match)
Arm(resp) ==
    CASE resp.http = "NetworkError" -> "Network"
      [] resp.http = "Status500" -> "HttpStatus"
      [] resp.http = "Ok" /\ resp.body = None -> "Parse"
      [] OTHER ->
           LET r == Unwrap(resp.body) IN
           CASE r.status = "authenticated" /\ IsSome(r.token) -> "authenticated"
             [] r.status = "authenticated" -> "MissingToken"
             [] r.status = "pending" -> "pending"
             [] r.status = "expired" -> "expired"
             [] r.status = "invalid" -> "invalid"
             [] OTHER -> "Unexpected"

\* PcAfter polling on after an "expired" or "invalid" reply
PcAfter_KeepPolling(resp, a, m) ==
    CASE Arm(resp) = "authenticated" -> "Validating"
      [] Arm(resp) \in {"pending", "expired", "invalid"} -> AfterPending(a, m)
      [] OTHER -> "Failed"

\* where login() is after handling a response in iteration a of m
PcAfter(resp, a, m) ==
    CASE Arm(resp) = "authenticated" -> "Validating"
      [] Arm(resp) = "pending" -> AfterPending(a, m)
      [] Arm(resp) = "expired" -> "Expired"
      [] Arm(resp) = "invalid" -> "Invalid"
      [] OTHER -> "Failed"

\* the error login() returns after handling a response ("none": no error)
ErrAfter(resp, a, m) ==
    CASE Arm(resp) = "authenticated" -> "none"
      [] Arm(resp) = "pending" ->
           IF AfterPending(a, m) = "TimedOut" THEN "PollTimeout" ELSE "none"
      [] Arm(resp) = "expired" -> "SessionExpired"
      [] Arm(resp) = "invalid" -> "SessionInvalid"
      [] OTHER -> Arm(resp)

\* ErrMsgAfter reporting an unknown status by its raw status, whatever message
\* the server sent with it
ErrMsgAfter_StatusOnly(resp, a, m) ==
    IF Arm(resp) = "Unexpected"
    THEN Msg("Unexpected authentication status: {}", Unwrap(resp.body).status, None)
    ELSE NoMsg

\* the message of the error login() returns after handling a response
ErrMsgAfter(resp, a, m) ==
    CASE Arm(resp) = "Network" -> Msg("failed to check login status", "", None)
      [] Arm(resp) = "HttpStatus" ->
           Msg("Login check failed: HTTP {} - {}", resp.http, resp.body)
      [] Arm(resp) = "Parse" -> Msg("failed to parse check login response", "", None)
      [] Arm(resp) = "MissingToken" -> Msg("no token in authenticated response", "", None)
      [] Arm(resp) = "expired" ->
           Msg("Authentication request expired. Please run runbeam login again.", "", None)
      [] Arm(resp) = "invalid" ->
           Msg("Invalid authentication request. Please run runbeam login again.", "", None)
      [] Arm(resp) = "Unexpected" ->
           LET r == Unwrap(resp.body) IN
           IF IsSome(r.message)
           THEN Msg("Authentication error: {}", Unwrap(r.message), None)
           ELSE Msg("Unexpected authentication status: {}", r.status, None)
      [] Arm(resp) = "pending" /\ AfterPending(a, m) = "TimedOut" ->
           Msg("Authentication timed out. Please run runbeam login again.", "", None)
      [] OTHER -> NoMsg

\* StoreAfter saving whatever token a successful response carries
StoreAfter_AnyToken(resp, st, t) ==
    IF IsSome(ParsedBody(resp)) /\ IsSome(Unwrap(resp.body).token)
    THEN save_auth(MakeAuth(Unwrap(resp.body), t))
    ELSE st

\* the credential file after handling a response at time t
StoreAfter(resp, st, t) ==
    IF Arm(resp) = "authenticated"
    THEN save_auth(MakeAuth(Unwrap(resp.body), t))
    ELSE st

\* PollCalls of a loop that issues the GET without sleeping first
PollCalls_NoSleep(resp) ==
    <<Event("check_login", "-", resp.http)>>
    \o (IF Arm(resp) = "authenticated"
        THEN <<Event("save_auth", Unwrap(Unwrap(resp.body).token), "ok")>>
        ELSE << >>)

\* the calls one loop iteration makes, in order
PollCalls(resp) ==
    <<Event("sleep", "-", "-"), Event("check_login", "-", resp.http)>>
    \o (IF Arm(resp) = "authenticated"
        THEN <<Event("save_auth", Unwrap(Unwrap(resp.body).token), "ok")>>
        ELSE << >>)

\* login() step 3, one loop iteration: sleep, GET check-login, match on status
Poll ==
    /\ pc = "Polling"
    /\ attempt <= maxAttempts
    /\ now' = now + PollInterval
    /\ \E resp \in CheckResponses :
         /\ lastReply' = Some(resp)
         /\ store' = StoreAfter(resp, store, now')
         /\ pc' = PcAfter(resp, attempt, maxAttempts)
         /\ err' = ErrAfter(resp, attempt, maxAttempts)
         /\ errMsg' = ErrMsgAfter(resp, attempt, maxAttempts)
         /\ attempt' = IF Arm(resp) = "pending" THEN attempt + 1 ELSE attempt
         /\ trace' = trace \o PollCalls(resp)
    /\ UNCHANGED <<storeAtStart, expiresIn, maxAttempts, runs>>
    /\ UNCHANGED <<cacheVars, fsVars, valVars, cmdVars>>

\* ValidateNew returning without the confirmatory validator call
ValidateNew_Skipped ==
    /\ pc = "Validating"
    /\ pc' = "Authenticated"
    /\ UNCHANGED <<store, storeAtStart, expiresIn, maxAttempts, attempt,
                   lastReply, err, errMsg, trace, now, runs>>
    /\ UNCHANGED <<cacheVars, fsVars, valVars, cmdVars>>

\* AfterValidate giving up the login when the validator rejects the token
AfterValidate_Abort(valid) == IF valid THEN "Authenticated" ELSE "Failed"

\* `match validation_result`: Ok prints a confirmation, Err a warning; both
\* arms fall through to `return Ok(())`
AfterValidate(valid) == "Authenticated"

\* login(), after save_auth: the confirmatory sdk_validate_jwt(&token_clone)
\* call; either verdict is followed by `return Ok(())`
ValidateNew ==
    /\ pc = "Validating"
    /\ \E valid \in BOOLEAN :
         /\ trace' = Append(trace, Event("validate", Unwrap(store).token,
                                         IF valid THEN "ok" ELSE "err"))
         /\ pc' = AfterValidate(valid)
    /\ UNCHANGED <<store, storeAtStart, expiresIn, maxAttempts, attempt,
                   lastReply, err, errMsg, now, runs>>
    /\ UNCHANGED <<cacheVars, fsVars, valVars, cmdVars>>

----------------------------------------------------------------------------
\* The JWKS cache (src/jwt.rs)

\* .unwrap_or(3600) in get_jwks_ttl
DefaultTtl == 3600

\* u64 arithmetic is modelled on WordBits-bit words: values wrap at 2^WordBits
WordBits == 16
U64Modulus == 2 ^ WordBits

\* clock readings (seconds since the epoch) the model distinguishes
Times == {0, 60, 3600, 3601}

\* API origins a key set can be requested from, and the documents each serves
Issuers == {"A", "B"}
\* JwkKey { kty, kid, alg, n }: n stands for the RSA key pair (n, e) of the key
Jwk(kid, kty, alg, n) == [kid |-> kid, kty |-> kty, alg |-> alg, n |-> n]
KeySets(url) ==
    IF url = "A"
    THEN {[keys |-> << >>],
          [keys |-> <<Jwk("k3", "EC", "ES256", "m3"),
                      Jwk("k2", "RSA", "RS256", "m2"),
                      Jwk("k1", "RSA", "RS256", "m1")>>]}
    ELSE {[keys |-> <<Jwk("k3", "EC", "ES256", "m3")>>]}

\* values of RUNBEAM_JWKS_TTL: unset, not a number, a number
EnvValues == {None, Some("abc"), Some("60")}

\* s.parse::<u64>().ok()
ParseU64(s) ==
    CASE s = "60" -> Some(60)
      [] OTHER -> None

\* get_jwks_ttl ignoring RUNBEAM_JWKS_TTL
get_jwks_ttl_NoOverride(env) == DefaultTtl

\* get_jwks_ttl(): RUNBEAM_JWKS_TTL if set and a u64, else 3600
get_jwks_ttl(env) ==
    IF IsSome(env) /\ IsSome(ParseU64(Unwrap(env)))
    THEN Unwrap(ParseU64(Unwrap(env)))
    ELSE DefaultTtl

\* JwksCache { jwks, cached_at, ttl_seconds }
JwksCache(jwks, at, ttl) == [jwks |-> jwks, cached_at |-> at, ttl_seconds |-> ttl]

\* u64 `a - b`: panics when overflow checks are on and a < b, wraps otherwise
\* (None stands for the panic)
SubU64(a, b, bld) ==
    IF a < b /\ bld = "debug" THEN None ELSE Some((a - b) % U64Modulus)

\* JwksCache::is_expired at clock reading t:
\* (now - self.cached_at) > self.ttl_seconds
is_expired(cache, t, bld) ==
    LET d == SubU64(t, cache.cached_at, bld) IN
    IF d = None THEN "panic"
    ELSE IF Unwrap(d) > cache.ttl_seconds THEN "expired" ELSE "fresh"

\* load_jwks_cache(): Ok(None) without a file or with an expired cache,
\* Err when the file does not parse, Ok(Some(cache)) otherwise
load_jwks_cache(file, t, bld) ==
    IF file = None THEN [kind |-> "Ok", cache |-> None]
    ELSE IF IsCorrupt(Unwrap(file)) THEN [kind |-> "Err", cache |-> None]
    ELSE LET e == is_expired(Unwrap(file), t, bld) IN
         CASE e = "panic" -> [kind |-> "Panic", cache |-> None]
           [] e = "expired" -> [kind |-> "Ok", cache |-> None]
           [] OTHER -> [kind |-> "Ok", cache |-> file]

\* save_jwks_cache(jwks): the file becomes {jwks, cached_at: now, ttl_seconds}
save_jwks_cache(jwks, t, env) == Some(JwksCache(jwks, t, get_jwks_ttl(env)))

\* What fetch_jwks(api_url) can return: an error (connection, status, parse)
\* or the document the issuer serves
FetchResults(url) ==
    [kind : {"NetworkError", "HttpStatus", "Parse"}, jwks : {None}]
    \cup [kind : {"Ok"}, jwks : {Some(k) : k \in KeySets(url)}]

\* the record of one get_jwks call
CallRecord(kind, jwks, fetches, url, force, t, before) ==
    [kind |-> kind, jwks |-> jwks, fetches |-> fetches, url |-> url,
     force |-> force, at |-> t, before |-> before]
NoCall == CallRecord("none", None, 0, "-", FALSE, 0, None)

\* get_jwks fetching a second time when the fetch fails
get_jwks_RetryFetch(file, t, bld, env, url, force, fr) ==
    LET ld == load_jwks_cache(file, t, bld) IN
    CASE ~force /\ ld.kind = "Panic" ->
           [out |-> CallRecord("Panic", None, 0, url, force, t, file), file |-> file]
      [] ~force /\ ld.kind = "Err" ->
           [out |-> CallRecord("CacheParse", None, 0, url, force, t, file), file |-> file]
      [] ~force /\ ld.kind = "Ok" /\ IsSome(ld.cache) ->
           [out |-> CallRecord("Ok", Some(Unwrap(ld.cache).jwks), 0, url, force, t, file),
            file |-> file]
      [] OTHER ->
           IF fr.kind = "Ok"
           THEN [out |-> CallRecord("Ok", fr.jwks, 1, url, force, t, file),
                 file |-> save_jwks_cache(Unwrap(fr.jwks), t, env)]
           ELSE [out |-> CallRecord(fr.kind, None, 2, url, force, t, file),
                 file |-> file]

\* get_jwks answering a failed fetch with the set in the cache file, if any
get_jwks_StaleOnError(file, t, bld, env, url, force, fr) ==
    LET ld == load_jwks_cache(file, t, bld) IN
    CASE ~force /\ ld.kind = "Panic" ->
           [out |-> CallRecord("Panic", None, 0, url, force, t, file), file |-> file]
      [] ~force /\ ld.kind = "Err" ->
           [out |-> CallRecord("CacheParse", None, 0, url, force, t, file), file |-> file]
      [] ~force /\ ld.kind = "Ok" /\ IsSome(ld.cache) ->
           [out |-> CallRecord("Ok", Some(Unwrap(ld.cache).jwks), 0, url, force, t, file),
            file |-> file]
      [] OTHER ->
           IF fr.kind = "Ok"
           THEN [out |-> CallRecord("Ok", fr.jwks, 1, url, force, t, file),
                 file |-> save_jwks_cache(Unwrap(fr.jwks), t, env)]
           ELSE IF HasCredential(file)
           THEN [out |-> CallRecord("Ok", Some(Unwrap(file).jwks), 1, url, force, t, file),
                 file |-> file]
           ELSE [out |-> CallRecord(fr.kind, None, 1, url, force, t, file),
                 file |-> file]

\* get_jwks(api_url, force_refresh) on cache file `file` at clock reading t,
\* where fr is what fetch_jwks returns if it is called:
\* the call's record and the cache file afterwards
get_jwks(file, t, bld, env, url, force, fr) ==
    LET ld == load_jwks_cache(file, t, bld) IN
    CASE ~force /\ ld.kind = "Panic" ->
           [out |-> CallRecord("Panic", None, 0, url, force, t, file), file |-> file]
      [] ~force /\ ld.kind = "Err" ->
           [out |-> CallRecord("CacheParse", None, 0, url, force, t, file), file |-> file]
      [] ~force /\ ld.kind = "Ok" /\ IsSome(ld.cache) ->
           [out |-> CallRecord("Ok", Some(Unwrap(ld.cache).jwks), 0, url, force, t, file),
            file |-> file]
      [] OTHER ->
           IF fr.kind = "Ok"
           THEN [out |-> CallRecord("Ok", fr.jwks, 1, url, force, t, file),
                 file |-> save_jwks_cache(Unwrap(fr.jwks), t, env)]
           ELSE [out |-> CallRecord(fr.kind, None, 1, url, force, t, file),
                 file |-> file]

\* Before any key-set call: no cache file, or one a concurrent writer
\* truncated; any build profile; any RUNBEAM_JWKS_TTL
CacheInit ==
    /\ cacheFile \in {None, Some(Corrupt)}
    /\ build \in {"debug", "release"}
    /\ ttlEnv \in EnvValues
    /\ jwksOut = NoCall

\* the cache part of the state when no key-set call is modelled
CacheIdle ==
    /\ cacheFile = None
    /\ build = "release"
    /\ ttlEnv = None
    /\ jwksOut = NoCall

\* one call of get_jwks(api_url, force_refresh)
GetJwks ==
    /\ \E url \in Issuers, force \in BOOLEAN :
         \E fr \in FetchResults(url) :
            LET r == get_jwks(cacheFile, now, build, ttlEnv, url, force, fr) IN
            /\ jwksOut' = r.out
            /\ cacheFile' = r.file
    /\ UNCHANGED <<build, ttlEnv, now, loginVars, fsVars, valVars, cmdVars>>

\* time passes between invocations
Tick ==
    /\ \E t \in Times : t > now /\ now' = t
    /\ UNCHANGED <<cacheVars, loginVars, fsVars, valVars, cmdVars>>

\* the system clock is set back (SystemTime is not monotonic)
ClockStepBack ==
    /\ \E t \in Times : t < now /\ now' = t
    /\ UNCHANGED <<cacheVars, loginVars, fsVars, valVars, cmdVars>>

\* the next invocation runs with another RUNBEAM_JWKS_TTL
SetTtlEnv ==
    /\ \E e \in EnvValues : e # ttlEnv /\ ttlEnv' = e
    /\ UNCHANGED <<cacheFile, build, jwksOut, now, loginVars, fsVars, valVars, cmdVars>>

----------------------------------------------------------------------------
\* Write-temp-then-rename by concurrent processes
\* (save_auth in src/storage.rs, save_jwks_cache in src/jwt.rs)

\* processes that save concurrently
NWriters == 2
\* write(2) calls one write_all needs for the serialized content
BlocksPerFile == 2

Writers == 1 .. NWriters
Files == {"auth.json", "jwks_cache.json"}

\* tmp_path_for(path): the file name with ".tmp" appended
tmp_path_for(path) == path \o ".tmp"

\* path.with_extension("json.tmp") on jwks_cache.json
with_extension_json_tmp(path) ==
    IF path = "jwks_cache.json" THEN "jwks_cache" \o ".json.tmp" ELSE path \o ".json.tmp"

\* the temporary path save_auth / save_jwks_cache writes before renaming
TmpOf(f) == IF f = "auth.json" THEN tmp_path_for(f) ELSE with_extension_json_tmp(f)

Paths == Files \cup {TmpOf(f) : f \in Files}

\* the serialized content process w writes, block by block
\* (w = 0: the complete file left by an earlier invocation)
Complete(w) == [i \in 1 .. BlocksPerFile |-> [w |-> w, b |-> i]]

\* a block of zero bytes (reading a hole past a truncation)
Hole == [w |-> 0, b |-> 0]

\* content after writing block blk at block offset off (0-based)
WriteAt(content, off, blk) ==
    [i \in 1 .. (IF off + 1 > Len(content) THEN off + 1 ELSE Len(content)) |->
        IF i = off + 1 THEN blk
        ELSE IF i <= Len(content) THEN content[i] ELSE Hole]

\* Before any concurrent save: both target files hold complete content of an
\* earlier invocation, or neither exists yet; each process saves one file
FsInit ==
    /\ \/ /\ dir = [p \in Paths |-> CASE p = "auth.json" -> 1
                                      [] p = "jwks_cache.json" -> 2
                                      [] OTHER -> 0]
          /\ inodes = <<Complete(0), Complete(0)>>
       \/ /\ dir = [p \in Paths |-> 0]
          /\ inodes = << >>
    /\ wpc = [w \in Writers |-> "start"]
    /\ wfile \in [Writers -> Files]
    /\ woff = [w \in Writers |-> 0]
    /\ wfd = [w \in Writers |-> 0]
    /\ observed = None
    /\ renames = << >>

\* the file-system part of the state when no concurrent save is modelled
FsIdle ==
    /\ dir = [p \in Paths |-> 0]
    /\ inodes = << >>
    /\ wpc = [w \in Writers |-> "idle"]
    /\ wfile = [w \in Writers |-> "auth.json"]
    /\ woff = [w \in Writers |-> 0]
    /\ wfd = [w \in Writers |-> 0]
    /\ observed = None
    /\ renames = << >>

\* fs::File::create(&tmp_path): creates the file, or truncates the existing one
WCreate(w) ==
    /\ wpc[w] = "start"
    /\ LET tp == TmpOf(wfile[w]) IN
       IF dir[tp] # 0
       THEN /\ inodes' = [inodes EXCEPT ![dir[tp]] = << >>]
            /\ wfd' = [wfd EXCEPT ![w] = dir[tp]]
            /\ UNCHANGED dir
       ELSE /\ inodes' = Append(inodes, << >>)
            /\ dir' = [dir EXCEPT ![tp] = Len(inodes) + 1]
            /\ wfd' = [wfd EXCEPT ![w] = Len(inodes) + 1]
    /\ woff' = [woff EXCEPT ![w] = 0]
    /\ wpc' = [wpc EXCEPT ![w] = "open"]
    /\ UNCHANGED <<wfile, observed, renames, loginVars, now, cacheVars, valVars, cmdVars>>

\* f.write_all(json.as_bytes()): one write(2) at the handle's own offset;
\* after the last one f.sync_all() and the handle is dropped
WWrite(w) ==
    /\ wpc[w] = "open"
    /\ inodes' = [inodes EXCEPT ![wfd[w]] =
                     WriteAt(inodes[wfd[w]], woff[w], Complete(w)[woff[w] + 1])]
    /\ woff' = [woff EXCEPT ![w] = woff[w] + 1]
    /\ wpc' = [wpc EXCEPT ![w] = IF woff[w] + 1 = BlocksPerFile THEN "closed" ELSE "open"]
    /\ UNCHANGED <<dir, wfile, wfd, observed, renames, loginVars, now, cacheVars, valVars, cmdVars>>

\* fs::rename(&tmp_path, &path): fails when the temporary path is gone
WRename(w) ==
    /\ wpc[w] = "closed"
    /\ LET tp == TmpOf(wfile[w]) IN
       IF dir[tp] # 0
       THEN /\ dir' = [dir EXCEPT ![wfile[w]] = dir[tp], ![tp] = 0]
            /\ wpc' = [wpc EXCEPT ![w] = "done"]
            /\ renames' = Append(renames, w)
       ELSE /\ wpc' = [wpc EXCEPT ![w] = "failed"]
            /\ UNCHANGED <<dir, renames>>
    /\ UNCHANGED <<inodes, wfile, woff, wfd, observed, loginVars, now, cacheVars, valVars, cmdVars>>

\* load_auth / load_jwks_cache in another process: fs::read_to_string(&path)
ReadTarget ==
    /\ \E f \in Files :
         /\ dir[f] # 0
         /\ observed' = Some([file |-> f, content |-> inodes[dir[f]]])
    /\ UNCHANGED <<dir, inodes, wpc, wfile, woff, wfd, renames, loginVars, now, cacheVars, valVars, cmdVars>>

----------------------------------------------------------------------------
\* Issuer normalization (normalize_issuer in src/jwt.rs)

\* An issuer or API URL string, written by its lexical parts: the text is the
\* scheme followed by "://" (when there is a scheme), then user info, host,
\* port, path and query; "" is an absent part
Str(scheme, user, host, port, path, query) ==
    [scheme |-> scheme, user |-> user, host |-> host, port |-> port,
     path |-> path, query |-> query]

\* the text of a string
Text(s) ==
    (IF s.scheme = "" THEN "" ELSE s.scheme \o "://")
    \o s.user \o s.host \o s.port \o s.path \o s.query

\* the strings normalization is applied to: with and without a scheme, user
\* info, upper case, default and explicit ports, paths, queries, and a host
\* name directly followed by a port; a missing host comes without user info,
\* and with a port only when there is no scheme
IssuerStrings ==
    {s \in [scheme : {"", "http", "HTTP", "a.com"}, user : {"", "u@"},
            host : {"", "a.com", "A.COM", "x"}, port : {"", ":80", ":8000"},
            path : {"", "/x/y"}, query : {"", "?q"}] :
        s.host = "" => (s.user = "" /\ (s.port = "" \/ s.scheme = ""))}

\* ASCII lower case
Lower(x) ==
    CASE x = "HTTP" -> "http"
      [] x = "A.COM" -> "a.com"
      [] x = "B.COM" -> "b.com"
      [] OTHER -> x

\* the schemes the url crate treats as special, and their default ports
Special(scheme) == scheme = "http"
DefaultPort(scheme) == IF scheme = "http" THEN ":80" ELSE ""

\* the first segment of a path
FirstSegment(path) == IF path = "/x/y" THEN "x" ELSE ""

\* a parsed Url: scheme(), host_str() and port() as text
Url(scheme, host, port) == [ok |-> TRUE, scheme |-> scheme, host |-> host, port |-> port]
ParseError == [ok |-> FALSE, scheme |-> "", host |-> "", port |-> ""]

\* url::Url::parse(iss). Without "://" a text "host:port..." is read as the
\* scheme "host" followed by an opaque path, and any other text is a relative
\* reference (an error). With a special scheme the host is lower-cased, a
\* default port is dropped, and an empty authority takes the first path
\* segment as the host (slashes are skipped) or is an error; other schemes
\* keep the host as written and may have no host
ParseUrl(s) ==
    LET sch == Lower(s.scheme) IN
    CASE s.scheme = "" ->
           IF s.user = "" /\ s.host # "" /\ s.port # ""
           THEN Url(Lower(s.host), "", "")
           ELSE ParseError
      [] s.host # "" /\ Special(sch) ->
           Url(sch, Lower(s.host), IF s.port = DefaultPort(sch) THEN "" ELSE s.port)
      [] s.host # "" -> Url(sch, s.host, s.port)
      [] Special(sch) ->
           IF s.path # "" THEN Url(sch, FirstSegment(s.path), "") ELSE ParseError
      [] OTHER -> Url(sch, "", "")

\* normalize_issuer keeping the path of the URL
normalize_issuer_KeepPath(iss) ==
    LET url == ParseUrl(iss) IN
    IF url.ok
    THEN Str(url.scheme, "", url.host, url.port, iss.path, "")
    ELSE iss

\* normalize_issuer(iss): format!("{}://{}{}", scheme, host, port) of the
\* parsed URL, or the string as it is when it does not parse
normalize_issuer(iss) ==
    LET url == ParseUrl(iss) IN
    IF url.ok
    THEN Str(url.scheme, "", url.host, url.port, "", "")
    ELSE iss

\* the record of one normalize_issuer call
IssCall(x, y, again) == [called |-> TRUE, in |-> x, out |-> y, again |-> again]
NoIss == [called |-> FALSE, in |-> Str("", "", "", "", "", ""),
          out |-> Str("", "", "", "", "", ""), again |-> FALSE]

\* normalize_issuer(iss) on some string
NormalizeIssuer ==
    /\ \E x \in IssuerStrings : issOut' = IssCall(x, normalize_issuer(x), FALSE)
    /\ UNCHANGED <<token, valOut, loginVars, now, cacheVars, fsVars, cmdVars>>

\* normalize_issuer applied to the string the last call returned
NormalizeAgain ==
    /\ issOut.called
    /\ issOut' = IssCall(issOut.out, normalize_issuer(issOut.out), TRUE)
    /\ UNCHANGED <<token, valOut, loginVars, now, cacheVars, fsVars, cmdVars>>

----------------------------------------------------------------------------
\* Token validation (validate_jwt_token in src/jwt.rs)

\* Validation::new(..).leeway: seconds of clock skew the exp check allows
Leeway == 60

\* A JWT: whether its header decodes, the header's alg and kid, the payload's
\* kid, exp, iss and sub, and the key pair that signed it
Jwt(alg, hkid, pkid, sig, exp, iss, sub) ==
    [wellformed |-> TRUE, alg |-> alg, hkid |-> hkid, pkid |-> pkid, sig |-> sig,
     exp |-> exp, iss |-> iss, sub |-> sub]

\* the API base URLs validation is asked for, and the server each one reaches
UrlA == Str("http", "", "a.com", "", "", "")
UrlB == Str("http", "", "b.com", "", "", "")
ApiUrls == {UrlA, UrlB}
Server(url) == IF Lower(url.host) = "a.com" THEN "A" ELSE "B"

\* iss claims: the origin of UrlA with a path, and another origin
IssValues == {Str("http", "", "a.com", "", "/x/y", ""), UrlB}
\* exp claims: long past, past by less than the leeway, in the future
\* (relative to the clock readings 3600 and 3601)
ExpValues == {3500, 3580, 3700}
\* key identifiers a token names: one that is served, one that is not
KidValues == {None, Some("k1"), Some("k9")}
\* key pairs a token is signed with: those of k1 and k2, and one never served
SigValues == {"m1", "m2", "m9"}

\* the tokens handed to validation
ValTokens ==
    {Jwt("RS256", h, p, g, e, Str("http", "", "a.com", "", "/x/y", ""), "u1") :
        h \in KidValues, p \in KidValues, g \in SigValues, e \in ExpValues}
    \cup {Jwt("RS256", Some("k1"), None, "m1", 3700, i, u) :
            i \in IssValues, u \in {"", "u1"}}
    \cup {Jwt("HS256", Some("k1"), None, "m1", 3700, UrlA, "u1")}
    \cup {Jwt("RS256", Some("k3"), None, "m3", 3700, UrlA, "u1")}
    \cup {[Jwt("RS256", None, None, "m1", 3700, UrlA, "u1") EXCEPT !.wellformed = FALSE]}
\* no token
NoToken == [none |-> TRUE]

\* jsonwebtoken's exp check at clock reading t
ExpiredAt(tok, t) == tok.exp < t - Leeway

\* the decode with insecure_disable_signature_validation(): the signature is
\* not verified, the claims are still validated (exp among them)
InsecureDecodeOk(tok, t) == ~ExpiredAt(tok, t)

\* kid_from_payload: read only when the header has no kid, and None when the
\* insecure decode fails
kid_from_payload(tok, t) ==
    IF tok.hkid = None /\ InsecureDecodeOk(tok, t) THEN tok.pkid ELSE None

\* kid = kid_from_header.or(kid_from_payload)
ResolvedKid(tok, t) == IF IsSome(tok.hkid) THEN tok.hkid ELSE kid_from_payload(tok, t)

\* keys.iter().find(..): the first key with this kid / the first RS256 key
RECURSIVE FindKid(_, _)
FindKid(keys, kid) ==
    IF keys = << >> THEN None
    ELSE IF Head(keys).kid = kid THEN Some(Head(keys))
    ELSE FindKid(Tail(keys), kid)
RECURSIVE FindRs256(_)
FindRs256(keys) ==
    IF keys = << >> THEN None
    ELSE IF Head(keys).alg = "RS256" THEN Some(Head(keys))
    ELSE FindRs256(Tail(keys))

\* SelectKey always looking for a key with the kid the token names ("" if none)
SelectKey_KidOnly(keys, kid) ==
    FindKid(keys, IF IsSome(kid) THEN Unwrap(kid) ELSE "")

\* SelectKey falling back to the first RS256 key when no key has the kid
SelectKey_FallbackOnMiss(keys, kid) ==
    IF IsSome(kid) /\ IsSome(FindKid(keys, Unwrap(kid)))
    THEN FindKid(keys, Unwrap(kid))
    ELSE FindRs256(keys)

\* the key chosen for a resolved kid: the match on kid, or without a kid the
\* first RS256 key
SelectKey(keys, kid) ==
    IF IsSome(kid) THEN FindKid(keys, Unwrap(kid)) ELSE FindRs256(keys)

\* Decode accepting a token whose exp has passed
Decode_NoExpiry(tok, jwk, t) ==
    CASE tok.alg # "RS256" -> "UnsupportedAlgorithm"
      [] tok.sig # jwk.n -> "SignatureInvalid"
      [] OTHER -> "Ok"

\* Decode reading the claims of a token whose signature does not verify
Decode_NoSignature(tok, jwk, t) ==
    CASE tok.alg # "RS256" -> "UnsupportedAlgorithm"
      [] ExpiredAt(tok, t) -> "ExpiredToken"
      [] OTHER -> "Ok"

\* decode::<JwtClaims>(token, &decoding_key, &validation): the header's
\* algorithm, then the signature, then exp
Decode(tok, jwk, t) ==
    CASE tok.alg # "RS256" -> "UnsupportedAlgorithm"
      [] tok.sig # jwk.n -> "SignatureInvalid"
      [] ExpiredAt(tok, t) -> "ExpiredToken"
      [] OTHER -> "Ok"

\* the record of one validate_jwt_token call: how it ended, the kid resolved,
\* the key selected, the kid stored in the returned claims, and its get_jwks call
ValRecord(kind, kid, key, claimsKid, jwks, url) ==
    [kind |-> kind, kid |-> kid, key |-> key, claimsKid |-> claimsKid,
     jwks |-> jwks, url |-> url]
NoValidate == ValRecord("none", None, None, None, NoCall, UrlA)

\* what validate_jwt_token does once get_jwks has returned the key set
CheckAgainst(tok, url, jwks, t, call) ==
    LET kid == ResolvedKid(tok, t)
        key == SelectKey(jwks.keys, kid)
        R(kind) == ValRecord(kind, kid, IF IsSome(key) THEN Some(Unwrap(key).kid) ELSE None,
                             None, call, url)
    IN
    CASE jwks.keys = << >> -> ValRecord("KeySetEmpty", None, None, None, call, url)
      [] key = None -> R("KeyNotFound")
      [] Unwrap(key).kty # "RSA" -> R("UnsupportedKeyType")
      [] Decode(tok, Unwrap(key), t) # "Ok" -> R(Decode(tok, Unwrap(key), t))
      [] normalize_issuer(tok.iss) # normalize_issuer(url) -> R("IssuerMismatch")
      [] tok.sub = "" -> R("MissingSubject")
      [] OTHER ->
           ValRecord("Ok", kid, Some(Unwrap(key).kid),
                     IF IsSome(tok.hkid) THEN tok.hkid ELSE tok.pkid, call, url)

\* validate_jwt_token(token, api_url) on cache file `file` at clock reading
\* t, where fr is what fetch_jwks returns if it is called: the call's record
\* and the cache file afterwards
validate_jwt_token(file, t, bld, env, tok, url, fr) ==
    IF ~tok.wellformed
    THEN [out |-> ValRecord("Malformed", None, None, None, NoCall, url), file |-> file]
    ELSE LET g == get_jwks(file, t, bld, env, Server(url), FALSE, fr) IN
         IF g.out.kind # "Ok"
         THEN [out |-> ValRecord(g.out.kind, None, None, None, g.out, url), file |-> g.file]
         ELSE [out |-> CheckAgainst(tok, url, Unwrap(g.out.jwks), t, g.out),
               file |-> g.file]

\* Before a validation: a token in hand; no cache file, or one that does not
\* parse; RUNBEAM_JWKS_TTL unset or 60
ValInit ==
    /\ token \in ValTokens
    /\ valOut = NoValidate
    /\ issOut = NoIss
    /\ cacheFile \in {None, Some(Corrupt)}
    /\ build = "release"
    /\ ttlEnv \in {None, Some("60")}
    /\ jwksOut = NoCall

\* the validation part of the state when no validation is modelled
ValIdle ==
    /\ token = NoToken
    /\ valOut = NoValidate
    /\ issOut = NoIss

\* one call of validate_jwt_token(token, api_url)
Validate ==
    /\ token # NoToken
    /\ \E url \in ApiUrls :
         \E fr \in FetchResults(Server(url)) :
            LET r == validate_jwt_token(cacheFile, now, build, ttlEnv, token, url, fr) IN
            /\ valOut' = r.out
            /\ jwksOut' = r.out.jwks
            /\ cacheFile' = r.file
    /\ UNCHANGED <<token, issOut, build, ttlEnv, now, loginVars, fsVars, cmdVars>>

----------------------------------------------------------------------------
\* The Harmony instance registry (src/storage.rs)

\* addresses, labels and path prefixes given to `runbeam harmony:add`
Ips == {"10.0.0.1", "10.0.0.2"}
Ports == {8080, 8081}
Labels == {"a", "b"}
PathPrefixes == {"admin", "mgmt"}

\* the empty id string
EmptyId == [hex |-> << >>]

\* derive_id(ip, port, label): the first 4 bytes of sha256("ip:port:label")
\* as 8 hex digits; a function of the three inputs, with different digests
\* for the different inputs of the model
derive_id(ip, port, label) == [hex |-> <<ip, port, label>>]

\* the ids an instance of the model can have
Ids == {derive_id(ip, port, label) : ip \in Ips, port \in Ports, label \in Labels}

\* HarmonyInstance { id, ip, port, label, path_prefix }
HarmonyInstance(id, ip, port, label, path_prefix) ==
    [id |-> id, ip |-> ip, port |-> port, label |-> label, path_prefix |-> path_prefix]

\* save_harmony_instances(list): the file holds the list
save_harmony_instances(list) == Some(list)

\* load_harmony_instances(): the empty list without a file; empty ids are
\* backfilled with derive_id and the list is saved if any was:
\* the list returned and the file afterwards
load_harmony_instances(file) ==
    IF file = None THEN [list |-> << >>, file |-> file]
    ELSE LET l == Unwrap(file)
             filled == [i \in DOMAIN l |->
                          IF l[i].id = EmptyId
                          THEN [l[i] EXCEPT !.id = derive_id(l[i].ip, l[i].port, l[i].label)]
                          ELSE l[i]]
         IN [list |-> filled,
             file |-> IF filled # l THEN save_harmony_instances(filled) ELSE file]

\* iter_mut().find(..): the position of the first element of a non-empty set
\* of positions
FirstOf(S) == CHOOSE i \in S : \A j \in S : i <= j

\* add_harmony_instance(new_inst): the file afterwards
add_harmony_instance(file, new_inst) ==
    LET list == load_harmony_instances(file).list
        byLabel == {i \in DOMAIN list : list[i].label = new_inst.label}
        byAddr == {i \in DOMAIN list :
                     list[i].ip = new_inst.ip /\ list[i].port = new_inst.port}
    IN
    save_harmony_instances(
        IF byLabel # {}
        THEN [list EXCEPT ![FirstOf(byLabel)] =
                 [@ EXCEPT !.ip = new_inst.ip, !.port = new_inst.port,
                           !.label = new_inst.label,
                           !.path_prefix = new_inst.path_prefix]]
        ELSE IF byAddr # {}
        THEN [list EXCEPT ![FirstOf(byAddr)] =
                 [@ EXCEPT !.label = new_inst.label,
                           !.path_prefix = new_inst.path_prefix]]
        ELSE Append(list,
                    IF new_inst.id = EmptyId
                    THEN [new_inst EXCEPT !.id = derive_id(new_inst.ip, new_inst.port,
                                                           new_inst.label)]
                    ELSE new_inst))

\* the record of one registry operation: which, whether it reported a change,
\* and by how many instances the list shrank
RegRecord(op, changed, removed) == [op |-> op, changed |-> changed, removed |-> removed]
NoReg == RegRecord("none", FALSE, 0)

\* load, list.retain(..), save if the length changed: the record and the file
\* afterwards, where kept is the list after retain
RemoveResult(op, file, kept) ==
    LET ld == load_harmony_instances(file)
        changed == Len(kept) # Len(ld.list)
    IN [out |-> RegRecord(op, changed, Len(ld.list) - Len(kept)),
        file |-> IF changed THEN save_harmony_instances(kept) ELSE ld.file]

\* remove_harmony_instance_by_label(label)
remove_harmony_instance_by_label(file, label) ==
    RemoveResult("remove_by_label", file,
                 SelectSeq(load_harmony_instances(file).list, LAMBDA i : i.label # label))

\* remove_harmony_instance_by_addr(ip, port)
remove_harmony_instance_by_addr(file, ip, port) ==
    RemoveResult("remove_by_addr", file,
                 SelectSeq(load_harmony_instances(file).list,
                           LAMBDA i : ~(i.ip = ip /\ i.port = port)))

\* remove_harmony_instance_by_id(id)
remove_harmony_instance_by_id(file, id) ==
    RemoveResult("remove_by_id", file,
                 SelectSeq(load_harmony_instances(file).list, LAMBDA i : i.id # id))

\* `runbeam harmony:add --label ..`: harmony_add builds the instance with an
\* empty id and calls add_harmony_instance
AddHarmonyInstance ==
    /\ \E ip \in Ips, port \in Ports, label \in Labels, prefix \in PathPrefixes :
         harmonyFile' = add_harmony_instance(harmonyFile,
                            HarmonyInstance(EmptyId, ip, port, label, prefix))
    /\ regOut' = RegRecord("add", FALSE, 0)
    /\ UNCHANGED <<verOut, loginVars, now, cacheVars, fsVars, valVars>>

\* `runbeam harmony:remove --label`
RemoveByLabel ==
    /\ \E label \in Labels :
         LET r == remove_harmony_instance_by_label(harmonyFile, label) IN
         harmonyFile' = r.file /\ regOut' = r.out
    /\ UNCHANGED <<verOut, loginVars, now, cacheVars, fsVars, valVars>>

\* `runbeam harmony:remove --ip --port`
RemoveByAddr ==
    /\ \E ip \in Ips, port \in Ports :
         LET r == remove_harmony_instance_by_addr(harmonyFile, ip, port) IN
         harmonyFile' = r.file /\ regOut' = r.out
    /\ UNCHANGED <<verOut, loginVars, now, cacheVars, fsVars, valVars>>

\* `runbeam harmony:remove --id`
RemoveById ==
    /\ \E id \in Ids :
         LET r == remove_harmony_instance_by_id(harmonyFile, id) IN
         harmonyFile' = r.file /\ regOut' = r.out
    /\ UNCHANGED <<verOut, loginVars, now, cacheVars, fsVars, valVars>>

----------------------------------------------------------------------------
\* `runbeam verify` (verify_token in src/commands/auth.rs)

\* how verify_token ends on credential file st when the SDK validator's
\* verdict on the stored token is `valid`
VerifyOutcome(st, valid) ==
    CASE st = None -> "NoToken"
      [] IsCorrupt(Unwrap(st)) -> "LoadAuth"
      [] valid -> "Ok"
      [] OTHER -> "VerifyFailed"

\* VerifyToken removing the stored credential when the validator rejects it
VerifyToken_ClearOnFailure ==
    /\ pc \in {"Idle"} \cup Terminal
    /\ \E valid \in BOOLEAN :
         /\ verOut' = VerifyOutcome(store, valid)
         /\ store' = IF verOut' = "VerifyFailed" THEN clear_auth ELSE store
    /\ UNCHANGED <<storeAtStart, expiresIn, maxAttempts, attempt, lastReply, err,
                   errMsg, trace, runs, pc>>
    /\ UNCHANGED <<harmonyFile, regOut, now, cacheVars, fsVars, valVars>>

\* one run of `runbeam verify`: load_auth, then the SDK validator on the
\* stored token; the verdict is printed and returned, nothing is written
VerifyToken ==
    /\ pc \in {"Idle"} \cup Terminal
    /\ \E valid \in BOOLEAN : verOut' = VerifyOutcome(store, valid)
    /\ UNCHANGED <<harmonyFile, regOut, loginVars, now, cacheVars, fsVars, valVars>>

\* the registry and verify part of the state when neither is modelled
CmdIdle ==
    /\ harmonyFile = None
    /\ regOut = NoReg
    /\ verOut = "none"

\* the login part of the state when no login is modelled
LoginIdle == LoginInit /\ store = None

\* Initial state of the login flow; no JWKS call and no concurrent writer
Init == LoginInit /\ now \in StartTimes /\ CacheIdle /\ FsIdle /\ ValIdle /\ CmdIdle

LoginStep == CheckExisting \/ StartLogin \/ OpenBrowser \/ Poll \/ ValidateNew

Next == LoginInvoke \/ Logout \/ LoginStep

vars == <<loginVars, now, cacheVars, fsVars, valVars, cmdVars>>

Spec == Init /\ [][Next]_vars

\* The key-set cache on its own: calls of get_jwks as the clock moves
InitJwks == LoginIdle /\ now \in Times /\ CacheInit /\ FsIdle /\ ValIdle /\ CmdIdle
NextJwks == GetJwks \/ Tick \/ ClockStepBack \/ SetTtlEnv
SpecJwks == InitJwks /\ [][NextJwks]_vars

\* Concurrent saves and reads of the two files by separate processes
InitFs == LoginIdle /\ now \in StartTimes /\ CacheIdle /\ FsInit /\ ValIdle /\ CmdIdle
NextFs == (\E w \in Writers : WCreate(w) \/ WWrite(w) \/ WRename(w)) \/ ReadTarget
SpecFs == InitFs /\ [][NextFs]_vars

\* The blocking calls of login() return (HTTP timeouts, a finite sleep), so a
\* running invocation always takes its next step
\* Issuer normalization on its own
InitNormalize == LoginIdle /\ now \in StartTimes /\ CacheIdle /\ FsIdle /\ ValIdle /\ CmdIdle
NextNormalize == NormalizeIssuer \/ NormalizeAgain
SpecNormalize == InitNormalize /\ [][NextNormalize]_vars

\* Token validation as the clock moves on
ValTimes == {60, 3600}
InitValidate == LoginIdle /\ now \in ValTimes /\ ValInit /\ FsIdle /\ CmdIdle
NextValidate == Validate \/ Tick
SpecValidate == InitValidate /\ [][NextValidate]_vars

\* Login and validation share no state (login's validator is the SDK's): a
\* behaviour either runs the login flow or validates the token in hand
InitNoRetry == Init \/ InitValidate
NextNoRetry == (token = NoToken /\ Next) \/ (token # NoToken /\ NextValidate)
SpecNoRetry == InitNoRetry /\ [][NextNoRetry]_vars

\* Registry operations from an empty registry
InitHarmony == LoginIdle /\ now \in StartTimes /\ CacheIdle /\ FsIdle /\ ValIdle /\ CmdIdle
NextHarmony == AddHarmonyInstance \/ RemoveByLabel \/ RemoveByAddr \/ RemoveById
SpecHarmony == InitHarmony /\ [][NextHarmony]_vars

\* Validations and verify runs with any stored credential
VerifyTokens == {t \in ValTokens : t.exp = 3700 /\ t.pkid = None}
InitVerify ==
    LoginInit /\ now \in ValTimes /\ ValInit /\ token \in VerifyTokens /\ FsIdle /\ CmdIdle
NextVerify == Validate \/ VerifyToken \/ Tick
SpecVerify == InitVerify /\ [][NextVerify]_vars

FairSpec == Init /\ [][Next]_vars /\ WF_vars(LoginStep)

----------------------------------------------------------------------------
\* Properties of the login flow

FailedOutcomes == {"Expired", "Invalid", "TimedOut", "Failed"}
\* the parsed body of the last check-login response of this invocation
LastBody == IF IsSome(lastReply) THEN ParsedBody(Unwrap(lastReply)) ELSE None
\* this invocation received an "authenticated" reply carrying a token
GotToken ==
    /\ IsSome(LastBody)
    /\ Unwrap(LastBody).status = "authenticated"
    /\ IsSome(Unwrap(LastBody).token)
\* number of network calls in a trace
NetCount(tr) == Cardinality({i \in DOMAIN tr : tr[i].op \in NetworkOps})
\* login() has got past the expires_in_seconds check
Started == pc \notin {"Idle", "NotStarted", "StartLogin", "AwaitingBrowser"}

\* C1: the credential file changes during a login invocation only on an
\* "authenticated" reply that carries a token; a login that ends in Expired,
\* Invalid, TimedOut or Failed leaves the credential file as it found it.
C1_NoPartialCredential ==
    /\ pc \in FailedOutcomes => store = storeAtStart
    /\ (pc \in InRun \cup Terminal /\ store # storeAtStart) =>
          /\ GotToken
          /\ store = Some(MakeAuth(Unwrap(LastBody), now))

\* C1 witness: a login that found a (rejected) credential polled twice and failed
C1_Witness ==
    /\ pc \in FailedOutcomes
    /\ HasCredential(store)
    /\ Count(trace, "check_login") >= 2

\* C2 (as claimed): whenever the credential has been saved, a validator call on
\* the saved token precedes the save in this invocation.
C2_ValidateBeforeSave ==
    \A i \in DOMAIN trace :
        trace[i].op = "save_auth" =>
            \E j \in 1 .. (i - 1) :
                trace[j].op = "validate" /\ trace[j].arg = trace[i].arg

\* C2 (amended): on an "authenticated" reply login saves the credential first
\* and then calls the validator on the same token, as its last call; no
\* validator call on the returned token comes between the reply and the save.
C2_SaveThenValidate ==
    /\ \A i \in DOMAIN trace :
          trace[i].op = "save_auth" =>
              /\ i > 1 /\ trace[i - 1].op = "check_login"
              /\ i < Len(trace) =>
                    /\ trace[i + 1].op = "validate"
                    /\ trace[i + 1].arg = trace[i].arg
                    /\ i + 1 = Len(trace)
    /\ (pc = "Authenticated" /\ GotToken) =>
          /\ Len(trace) >= 2
          /\ trace[Len(trace)].op = "validate"
          /\ trace[Len(trace) - 1].op = "save_auth"
          /\ trace[Len(trace)].arg = Unwrap(store).token

\* C2 witness: the validator rejected the token of a credential already saved
C2_Witness ==
    /\ pc = "Authenticated"
    /\ GotToken
    /\ trace[Len(trace)].res = "err"
    /\ Unwrap(store).token = Unwrap(Unwrap(LastBody).token)

\* C3 (as claimed): if a credential was stored when login started, the
\* invocation makes no network call (start-login, check-login, validation),
\* ends Authenticated and leaves the credential unchanged.
C3_ExistingNoNetwork ==
    (pc \in InRun \cup Terminal /\ HasCredential(storeAtStart)) =>
        /\ NetCount(trace) = 0
        /\ store = storeAtStart
        /\ pc \in Terminal => pc = "Authenticated"

\* C3 (amended): if a credential was stored when login started, login hands
\* its token to the validator first; when the validator accepts it login ends
\* Authenticated with no start-login or check-login call and the credential
\* unchanged; when the validator rejects it login goes on to start-login.
C3_ShortCircuitWhenValid ==
    (pc \in (InRun \cup Terminal) \ {"NotStarted"} /\ HasCredential(storeAtStart)) =>
        /\ Len(trace) >= 2
        /\ trace[1] = Event("load_auth", "-", "some")
        /\ trace[2].op = "validate"
        /\ trace[2].arg = Unwrap(storeAtStart).token
        /\ trace[2].res = "ok" =>
              /\ pc = "Authenticated"
              /\ Len(trace) = 2
              /\ store = storeAtStart
        /\ trace[2].res = "err" =>
              /\ pc # "StartLogin" => Len(trace) >= 3 /\ trace[3].op = "start_login"
              /\ pc = "StartLogin" => Len(trace) = 2

\* C3 witness: a stored credential was accepted and login short-circuited
C3_Witness ==
    /\ pc = "Authenticated"
    /\ HasCredential(storeAtStart)
    /\ Count(trace, "validate") = 1
    /\ Count(trace, "start_login") = 0

\* C4: for expires_in_seconds > 0 the poll bound is
\* floor(expires_in_seconds / 5) + 2 (12 gives 4), and an invocation never
\* makes more check-login calls than that.
C4_MaxAttempts ==
    (Started /\ pc # "Idle" /\ expiresIn > 0) =>
        /\ maxAttempts = (expiresIn \div (Scale * PollInterval)) + 2
        /\ expiresIn = 12 * Scale => maxAttempts = 4
        /\ Count(trace, "check_login") <= maxAttempts

\* C4 witness: a fractional lifetime just under 10 s, polled to the bound
C4_Witness ==
    /\ Started
    /\ expiresIn > 9 * Scale
    /\ expiresIn < 10 * Scale
    /\ Count(trace, "check_login") = 3
    /\ pc = "TimedOut"

\* a step from a terminal state starts a new invocation or makes no call
QuietAfterTerminal == pc \in Terminal => (pc' = "NotStarted" \/ trace' = trace)

\* C5: every login invocation reaches a terminal state and makes no network
\* call after it; while every reply is "pending" the calls made stay below
\* max_attempts, and TimedOut is reached after exactly max_attempts calls,
\* all answered "pending", with the credential file untouched.
C5_Terminates ==
    /\ (pc \in InRun) ~> (pc \in Terminal)
    /\ [][QuietAfterTerminal]_vars
    /\ [](pc = "Polling" =>
            /\ Count(trace, "check_login") = attempt - 1
            /\ attempt <= maxAttempts)
    /\ [](pc = "TimedOut" =>
            /\ Count(trace, "check_login") = maxAttempts
            /\ \A i \in DOMAIN trace : trace[i].op = "check_login" => trace[i].res = "Ok"
            /\ Unwrap(LastBody).status = "pending"
            /\ err = "PollTimeout"
            /\ store = storeAtStart)

\* C5 witness: a login timed out after four "pending" replies
C5_Witness ==
    /\ pc = "TimedOut"
    /\ maxAttempts = 4
    /\ Count(trace, "check_login") = 4

C7_ExpiredInvalidTerminal ==
    (pc \in InRun \cup Terminal /\ IsSome(LastBody)
        /\ Unwrap(LastBody).status \in {"expired", "invalid"}) =>
        /\ Unwrap(LastBody).status = "expired" => pc = "Expired" /\ err = "SessionExpired"
        /\ Unwrap(LastBody).status = "invalid" => pc = "Invalid" /\ err = "SessionInvalid"
        /\ trace[Len(trace)].op = "check_login"
        /\ store = storeAtStart

\* C7 witness: an "expired" reply that carried a token, after one "pending"
C7_Witness ==
    /\ pc = "Expired"
    /\ Count(trace, "check_login") = 2
    /\ Unwrap(LastBody).token = Some("t1")
    /\ HasCredential(storeAtStart)

----------------------------------------------------------------------------
\* Properties of the key-set cache

\* the cache file holds a JwksCache that parses
HasCache(file) == HasCredential(file)

\* C8: a cached key set is fresh if and only if now - cached_at <= ttl, the
\* difference being negative (hence fresh) when cached_at > now; a set with
\* cached_at = 0 and ttl = 3600 is stale at any now > 3600.
C8_FreshIffWithinTtl ==
    HasCache(cacheFile) =>
        LET c == Unwrap(cacheFile) IN
        /\ is_expired(c, now, build) = "fresh" <=> now - c.cached_at <= c.ttl_seconds
        /\ is_expired(c, now, build) = "expired" <=> now - c.cached_at > c.ttl_seconds
        /\ (c.cached_at = 0 /\ c.ttl_seconds = DefaultTtl /\ now > DefaultTtl) =>
              is_expired(c, now, build) = "expired"

\* C9: get_jwks(issuer, false) returns the cached set without a fetch whenever
\* the cache file exists and is fresh (age <= stored ttl), returns a cached set
\* only if it is not stale, and fetches when the cache is missing or stale.
C9_FreshCacheNoFetch ==
    (jwksOut.kind # "none" /\ ~jwksOut.force) =>
        LET b == jwksOut.before
            age == jwksOut.at - Unwrap(b).cached_at
        IN
        /\ (HasCache(b) /\ age <= Unwrap(b).ttl_seconds) =>
              /\ jwksOut.kind = "Ok"
              /\ jwksOut.fetches = 0
              /\ jwksOut.jwks = Some(Unwrap(b).jwks)
        /\ (jwksOut.kind = "Ok" /\ jwksOut.fetches = 0) =>
              HasCache(b) /\ age <= Unwrap(b).ttl_seconds
        /\ (b = None \/ (HasCache(b) /\ age > Unwrap(b).ttl_seconds)) =>
              jwksOut.fetches = 1

----------------------------------------------------------------------------
\* Properties of write-temp-then-rename

\* the writers whose rename onto f succeeded, in order
RenamedOnto(f) == SelectSeq(renames, LAMBDA w : wfile[w] = f)

\* C10: a reader of the credential file or the key-set cache file never sees
\* a partially written file, and once every writer of a file has finished the
\* file holds the complete content of the writer whose rename succeeded last.
C10_AtomicReplace ==
    /\ IsSome(observed) =>
          Unwrap(observed).content \in {Complete(w) : w \in 0 .. NWriters}
    /\ \A f \in Files :
          ((\A w \in Writers : wfile[w] = f => wpc[w] \in {"done", "failed"})
              /\ RenamedOnto(f) # << >>) =>
          inodes[dir[f]] = Complete(RenamedOnto(f)[Len(RenamedOnto(f))])

----------------------------------------------------------------------------
\* Properties of token validation

\* the last validation got a non-empty key set from get_jwks
GotKeys ==
    /\ valOut.kind # "none"
    /\ valOut.jwks.kind = "Ok"
    /\ Unwrap(valOut.jwks.jwks).keys # << >>
\* the keys the last validation obtained
ObtainedKeys == Unwrap(valOut.jwks.jwks).keys
\* the keys of a list that carry a key id / the RS256 keys of a list
WithKid(keys, kid) == {i \in DOMAIN keys : keys[i].kid = kid}
Rs256Keys(keys) == {i \in DOMAIN keys : keys[i].alg = "RS256"}
\* the token is signed with a key that is not in the obtained key set
SignedByAbsentKey == \A i \in DOMAIN ObtainedKeys : ObtainedKeys[i].n # token.sig
\* the token names its signing key wherever it names a key
NamesSigningKey ==
    \A k \in {token.hkid, token.pkid} :
        IsSome(k) => (Unwrap(k) = "k1" <=> token.sig = "m1") /\ (Unwrap(k) = "k9" <=> token.sig = "m9")
\* the payload's kid can be read at the time of the call: the unverified
\* decode rejects a token whose exp is more than the leeway in the past
PayloadReadable == token.exp >= valOut.jwks.at - Leeway
\* the key id the call works with: the header's, else the payload's if readable
KidInUse ==
    IF IsSome(token.hkid) THEN token.hkid
    ELSE IF PayloadReadable THEN token.pkid ELSE None

\* C11 (as claimed): a token signed with a key that is absent from the
\* obtained, non-empty key set fails with KeyNotFound, whether it names its
\* key in the header, only in the payload, or not at all.
C11_AbsentKeyIsKeyNotFound ==
    (GotKeys /\ token.alg = "RS256" /\ NamesSigningKey /\ SignedByAbsentKey) =>
        valOut.kind = "KeyNotFound"

\* C11 (amended): a token signed with a key absent from the obtained,
\* non-empty key set fails with KeyNotFound when the key id in use (the
\* header's, else the one read from the payload) names no key of the set, and
\* when no key id is in use and the set has no RS256 key; with no key id in
\* use and an RS256 key in the set it is verified against the first RS256 key
\* and fails with SignatureInvalid.
C11_KeyNotFoundForUnknownKid ==
    (GotKeys /\ token.alg = "RS256" /\ NamesSigningKey /\ SignedByAbsentKey) =>
        /\ (IsSome(KidInUse) /\ WithKid(ObtainedKeys, Unwrap(KidInUse)) = {}) =>
              valOut.kind = "KeyNotFound"
        /\ (KidInUse = None /\ Rs256Keys(ObtainedKeys) = {}) => valOut.kind = "KeyNotFound"
        /\ (KidInUse = None /\ Rs256Keys(ObtainedKeys) # {}) =>
              /\ valOut.kind = "SignatureInvalid"
              /\ \E i \in Rs256Keys(ObtainedKeys) :
                    /\ valOut.key = Some(ObtainedKeys[i].kid)
                    /\ \A j \in Rs256Keys(ObtainedKeys) : i <= j
        /\ valOut.kind \in {"KeyNotFound", "SignatureInvalid"}

\* C11 witness: a token without any key id, signed with a key that is not
\* served, was checked against the first RS256 key of a three-key set
C11_Witness ==
    /\ GotKeys
    /\ token.hkid = None /\ token.pkid = None /\ token.sig = "m9"
    /\ Len(ObtainedKeys) = 3
    /\ valOut.key = Some("k2")
    /\ valOut.kind = "SignatureInvalid"

\* C12: for a token whose header has no key id and whose payload has kid = k,
\* validation selects the key with kid k whenever the obtained key set has it,
\* whatever the token's other claims are (an exp in the past included); with a
\* key id in the header, that one is used and the payload's is not.
C12_PayloadKidSelectsKey ==
    GotKeys =>
        /\ (token.hkid = None /\ IsSome(token.pkid)
                /\ WithKid(ObtainedKeys, Unwrap(token.pkid)) # {}) =>
              valOut.key = token.pkid
        /\ IsSome(token.hkid) =>
              /\ valOut.kid = token.hkid
              /\ IsSome(valOut.key) => valOut.key = token.hkid
              /\ (WithKid(ObtainedKeys, Unwrap(token.hkid)) = {}) => valOut.kind = "KeyNotFound"

\* C13 (as claimed): a token whose exp is before the time of the call yields
\* ExpiredToken whenever a key was selected for it, whether or not that key
\* verifies its signature.
C13_ExpiredAlwaysExpiredToken ==
    (GotKeys /\ IsSome(valOut.key) /\ token.exp < valOut.jwks.at) =>
        valOut.kind = "ExpiredToken"

\* the selected key is an RSA key that verifies the token's RS256 signature
SelectedKeyVerifies ==
    /\ token.alg = "RS256"
    /\ IsSome(valOut.key)
    /\ \E i \in DOMAIN ObtainedKeys :
          /\ ObtainedKeys[i].kid = Unwrap(valOut.key)
          /\ ObtainedKeys[i].kty = "RSA"
          /\ ObtainedKeys[i].n = token.sig

\* C13 (amended): a token whose exp is more than 60 seconds (the validator's
\* leeway) before the time of the call never yields success; it yields
\* ExpiredToken when the selected key verifies its signature and the earlier
\* error (such as SignatureInvalid) otherwise; a token whose exp is no more
\* than 60 seconds in the past is not rejected as expired.
C13_ExpiredBeyondLeeway ==
    (valOut.kind # "none" /\ token.wellformed) =>
        /\ token.exp < valOut.jwks.at - Leeway =>
              /\ valOut.kind # "Ok"
              /\ (GotKeys /\ SelectedKeyVerifies) => valOut.kind = "ExpiredToken"
              /\ (GotKeys /\ IsSome(valOut.key) /\ ~SelectedKeyVerifies) =>
                    valOut.kind \in {"SignatureInvalid", "UnsupportedKeyType",
                                     "UnsupportedAlgorithm"}
        /\ token.exp >= valOut.jwks.at - Leeway => valOut.kind # "ExpiredToken"

\* C13 witness: a token long expired, named and signed by a served key, was
\* rejected as expired
C13_Witness ==
    /\ valOut.kind = "ExpiredToken"
    /\ token.hkid = Some("k1") /\ token.sig = "m1"
    /\ token.exp < valOut.jwks.at - Leeway

\* C16: an empty key list is an error of the key-set path: get_jwks never
\* returns an empty key set, the cache file never holds one, and validation
\* of a token against an empty set fails with KeySetEmpty before any key is
\* selected.
C16_EmptyKeySetIsError ==
    /\ jwksOut.kind = "Ok" => Unwrap(jwksOut.jwks).keys # << >>
    /\ HasCache(cacheFile) => Unwrap(cacheFile).jwks.keys # << >>
    /\ (valOut.kind # "none" /\ valOut.jwks.kind = "Ok"
            /\ Unwrap(valOut.jwks.jwks).keys = << >>) =>
          valOut.kind = "KeySetEmpty" /\ valOut.key = None

----------------------------------------------------------------------------
\* Properties of issuer normalization

\* two strings that parse as URLs and differ at most in path and query
SameButPath(x, y) ==
    /\ ParseUrl(x).ok /\ ParseUrl(y).ok
    /\ x.scheme = y.scheme /\ x.user = y.user /\ x.host = y.host /\ x.port = y.port

\* C14: normalize_issuer applied to its own result returns it unchanged; URLs
\* that differ only in path or query normalize to the same string; and
\* "http://a.com/x/y" and "http://a.com" both normalize to "http://a.com".
C14_NormalizeIdempotent ==
    issOut.called =>
        /\ issOut.again => issOut.out = issOut.in
        /\ \A y \in IssuerStrings :
              SameButPath(issOut.in, y) => Text(normalize_issuer(y)) = Text(issOut.out)
        /\ Text(issOut.in) \in {"http://a.com/x/y", "http://a.com"} =>
              Text(issOut.out) = "http://a.com"
        /\ ParseUrl(issOut.in).ok =>
              /\ issOut.out.user = "" /\ issOut.out.path = "" /\ issOut.out.query = ""
              /\ issOut.out.scheme # ""
        /\ ~ParseUrl(issOut.in).ok => issOut.out = issOut.in

\* C14 witness: the normal form of an upper-case URL with user info, port,
\* path and query was normalized again
C14_Witness ==
    /\ issOut.called
    /\ issOut.again
    /\ Text(issOut.in) = "http://a.com:8000"
    /\ Text(issOut.out) = "http://a.com:8000"

----------------------------------------------------------------------------
\* Properties of the login flow and of validation: failures

\* the validation found a fresh cache file (age within its ttl)
CacheWasFresh ==
    LET b == valOut.jwks.before IN
    /\ HasCache(b)
    /\ valOut.jwks.at >= Unwrap(b).cached_at
    /\ valOut.jwks.at - Unwrap(b).cached_at <= Unwrap(b).ttl_seconds

\* C15: when the validator rejects the token of an "authenticated" reply,
\* login still ends Authenticated and returns Ok, and the credential file
\* holds the credential built from that reply.
C15_ValidatorFailureNonFatal ==
    /\ (pc \in InRun \cup Terminal /\ GotToken
            /\ trace[Len(trace)].op = "validate" /\ trace[Len(trace)].res = "err") =>
          /\ pc = "Authenticated"
          /\ err = "none" /\ errMsg = NoMsg
          /\ store = Some(MakeAuth(Unwrap(LastBody), now))
    /\ pc = "Validating" => store = Some(MakeAuth(Unwrap(LastBody), now))

\* C15 witness: the new token replaced a stored credential and was rejected
C15_Witness ==
    /\ pc = "Authenticated"
    /\ GotToken
    /\ Count(trace, "validate") = 2
    /\ trace[Len(trace)] = Event("validate", "t2", "err")
    /\ Unwrap(store).token = "t2"
    /\ Unwrap(storeAtStart).token = "t1"

\* C17: nothing is retried. A validation makes at most one key-set fetch and
\* never forces a refresh: KeyNotFound or SignatureInvalid against a fresh
\* cached set comes with no fetch and the cache file unchanged; a failed fetch
\* ends the validation with that failure after one fetch, the cache file
\* unchanged. In login a failed start-login or check-login call is the last
\* call of the invocation, which ends Failed.
C17_NoAutomaticRetry ==
    /\ valOut.kind \notin {"none", "Malformed"} =>
          /\ valOut.jwks.fetches <= 1
          /\ ~valOut.jwks.force
          /\ CacheWasFresh =>
                /\ valOut.jwks.fetches = 0
                /\ cacheFile = valOut.jwks.before
          /\ valOut.jwks.kind \in {"NetworkError", "HttpStatus", "Parse"} =>
                /\ valOut.kind = valOut.jwks.kind
                /\ valOut.jwks.fetches = 1
                /\ cacheFile = valOut.jwks.before
    /\ valOut.kind = "Malformed" => valOut.jwks = NoCall
    /\ Count(trace, "start_login") <= 1
    /\ pc \in InRun \cup Terminal =>
          \A i \in DOMAIN trace :
             /\ (trace[i].op = "start_login" /\ trace[i].res # "Ok") =>
                   i = Len(trace) /\ pc = "Failed" /\ err = "StartLogin"
             /\ (trace[i].op = "check_login" /\ trace[i].res # "Ok") =>
                   i = Len(trace) /\ pc = "Failed"
    /\ (pc \in InRun \cup Terminal /\ IsSome(lastReply) /\ Arm(Unwrap(lastReply)) = "Parse") =>
          /\ pc = "Failed"
          /\ trace[Len(trace)].op = "check_login"

\* C17 witness: KeyNotFound against a cached key set, with no fetch
C17_Witness ==
    /\ valOut.kind = "KeyNotFound"
    /\ CacheWasFresh
    /\ valOut.jwks.fetches = 0
    /\ Len(Unwrap(valOut.jwks.jwks).keys) = 3

\* start-login answered with this invocation's device token
StartedOk == \E i \in DOMAIN trace : trace[i] = Event("start_login", "-", "Ok")

\* C18: when start-login returns expires_in_seconds <= 0, login ends Failed
\* without an attempt to open the verification URL, without a check-login
\* call, and with the credential file as it found it.
C18_ExpiredSessionNoBrowser ==
    (pc \in InRun \cup Terminal /\ StartedOk /\ expiresIn <= 0) =>
        /\ Count(trace, "open_browser") = 0
        /\ Count(trace, "check_login") = 0
        /\ store = storeAtStart
        /\ pc \in Terminal => pc = "Failed"

\* C19: an "authenticated" reply without a token ends login Failed with
\* MissingToken; it is the last call of the invocation (no validator call, no
\* further check-login call) and the credential file is as login found it.
C19_MissingTokenFails ==
    (pc \in InRun \cup Terminal /\ IsSome(LastBody)
        /\ Unwrap(LastBody).status = "authenticated" /\ Unwrap(LastBody).token = None) =>
        /\ pc = "Failed"
        /\ err = "MissingToken"
        /\ errMsg.fmt = "no token in authenticated response"
        /\ trace[Len(trace)] = Event("check_login", "-", "Ok")
        /\ store = storeAtStart

\* C19 witness: the token was missing from the reply to the third call, in a
\* login that had found a credential the validator rejected
C19_Witness ==
    /\ err = "MissingToken"
    /\ Count(trace, "check_login") = 3
    /\ Count(trace, "validate") = 1
    /\ HasCredential(store)

\* C20: a check-login response with a non-success HTTP status ends login
\* Failed with an error that carries the status and the response body; the
\* body is not read as a login reply, the response is the last call of the
\* invocation and the credential file is as login found it.
C20_HttpStatusFails ==
    (pc \in InRun \cup Terminal /\ IsSome(lastReply)
        /\ Unwrap(lastReply).http = "Status500") =>
        /\ pc = "Failed"
        /\ err = "HttpStatus"
        /\ errMsg = Msg("Login check failed: HTTP {} - {}", "Status500",
                        Unwrap(lastReply).body)
        /\ trace[Len(trace)] = Event("check_login", "-", "Status500")
        /\ store = storeAtStart

\* C20 witness: the second response had status 500 and a body that reads
\* like an "authenticated" reply with a token
C20_Witness ==
    /\ pc = "Failed"
    /\ err = "HttpStatus"
    /\ Count(trace, "check_login") = 2
    /\ Unwrap(Unwrap(lastReply).body).status = "authenticated"
    /\ IsSome(Unwrap(Unwrap(lastReply).body).token)
    /\ store = None

\* C21: a check-login reply whose status is none of authenticated, pending,
\* expired, invalid ends login Failed; the error carries the server's message
\* when the reply has one and the raw status otherwise; the reply is the last
\* call of the invocation and the credential file is as login found it.
C21_UnknownStatusFails ==
    (pc \in InRun \cup Terminal /\ IsSome(LastBody)
        /\ Unwrap(LastBody).status = "bogus") =>
        /\ pc = "Failed"
        /\ err = "Unexpected"
        /\ errMsg = IF IsSome(Unwrap(LastBody).message)
                    THEN Msg("Authentication error: {}", Unwrap(Unwrap(LastBody).message), None)
                    ELSE Msg("Unexpected authentication status: {}", "bogus", None)
        /\ trace[Len(trace)] = Event("check_login", "-", "Ok")
        /\ store = storeAtStart

\* C21 witness: the second reply had an unknown status and a server message,
\* in a login that had found a credential the validator rejected
C21_Witness ==
    /\ pc = "Failed"
    /\ err = "Unexpected"
    /\ errMsg = Msg("Authentication error: {}", "msg", None)
    /\ Count(trace, "check_login") = 2
    /\ Count(trace, "validate") = 1
    /\ HasCredential(store)

\* a step that issues a check-login call
IssuesCheckLogin == Count(trace', "check_login") > Count(trace, "check_login")

\* the step issues one call, has one sleep of the poll interval before it, and
\* the invocation's previous call, if any, had returned a reply read as "pending"
OneCallAfterPending ==
    IssuesCheckLogin =>
        /\ pc = "Polling"
        /\ Count(trace', "check_login") = Count(trace, "check_login") + 1
        /\ Count(trace', "sleep") = Count(trace, "sleep") + 1
        /\ now' = now + PollInterval
        /\ \E i \in DOMAIN trace' :
             /\ i > Len(trace)
             /\ trace'[i].op = "check_login"
             /\ i > 1
             /\ trace'[i - 1].op = "sleep"
        /\ Count(trace, "check_login") = 0 =>
             (lastReply = None /\ Count(trace, "sleep") = 0)
        /\ Count(trace, "check_login") > 0 =>
             /\ IsSome(lastReply)
             /\ Arm(Unwrap(lastReply)) = "pending"
             /\ \E j \in DOMAIN trace :
                  /\ trace[j] = Event("check_login", "-", "Ok")
                  /\ \A k \in DOMAIN trace : k > j => trace[k].op \notin {"check_login", "sleep"}

\* C26: check-login calls of one login run are sequential and evenly spaced:
\* each call is made by a step of the polling loop that sleeps the 5-second
\* poll interval once and then issues one call; the call before it in the run
\* has returned and was read as "pending"; so exactly one sleep lies between
\* two consecutive calls.
C26_SequentialEvenlySpaced == [][OneCallAfterPending]_vars

\* C26 witness: three check-login calls, each after one sleep, the first two
\* answered "pending" and the third with an error status
C26_Witness ==
    /\ Count(trace, "check_login") = 3
    /\ Count(trace, "sleep") = 3
    /\ Len(trace) >= 6
    /\ \A i \in 1..3 :
         /\ trace[Len(trace) - 2 * i + 1].op = "sleep"
         /\ trace[Len(trace) - 2 * i + 2].op = "check_login"
    /\ err = "HttpStatus"

----------------------------------------------------------------------------
\* Properties of the key-set cache: refresh

\* the cache file holds a set whose age at clock reading t exceeds its ttl
Stale(file, t) ==
    /\ HasCache(file)
    /\ t - Unwrap(file).cached_at > Unwrap(file).ttl_seconds

\* the ttl in force: 3600 unless RUNBEAM_JWKS_TTL holds a number
ConfiguredTtl == IF ttlEnv = Some("60") THEN 60 ELSE DefaultTtl

\* a get_jwks call that is forced, or finds no cache file or a stale one,
\* fetches once and, when the fetch succeeds, returns a set the issuer serves
\* and leaves the cache file holding that set, the time of the call and the
\* ttl in force, and nothing else
RefreshReplacesCache ==
    (jwksOut' # jwksOut
        /\ (jwksOut'.force \/ cacheFile = None \/ Stale(cacheFile, now))) =>
        /\ jwksOut'.fetches = 1
        /\ jwksOut'.at = now
        /\ jwksOut'.before = cacheFile
        /\ jwksOut'.kind = "Ok" =>
             /\ IsSome(jwksOut'.jwks)
             /\ Unwrap(jwksOut'.jwks) \in KeySets(jwksOut'.url)
             /\ cacheFile' = Some([jwks |-> Unwrap(jwksOut'.jwks),
                                   cached_at |-> now,
                                   ttl_seconds |-> ConfiguredTtl])

\* C22: when force_refresh is true, or no cache file exists, or the cached set
\* is stale, get_jwks fetches exactly once and on success returns the fetched
\* set and replaces the whole cache file with {jwks: the fetched set,
\* cached_at: now, ttl_seconds: the configured ttl (3600 unless
\* RUNBEAM_JWKS_TTL holds a number)}.
C22_RefreshReplacesCache == [][RefreshReplacesCache]_vars

\* C22 witness: a stale cache written with ttl 3600 was replaced, without
\* force, by another key set with ttl 60
C22_Witness ==
    /\ jwksOut.kind = "Ok"
    /\ ~jwksOut.force
    /\ jwksOut.fetches = 1
    /\ Stale(jwksOut.before, jwksOut.at)
    /\ Unwrap(jwksOut.before).ttl_seconds = 3600
    /\ HasCache(cacheFile)
    /\ Unwrap(cacheFile).ttl_seconds = 60
    /\ Unwrap(cacheFile).cached_at = jwksOut.at
    /\ Unwrap(cacheFile).jwks # Unwrap(jwksOut.before).jwks

\* C29: when the fetch fails (connection, status or malformed document),
\* get_jwks returns that error after one fetch, returns no key set, and the
\* cache file is exactly what it was before the call; a call that fetched and
\* returns a key set returns the set it has just saved, never the set that
\* was in the cache file before.
C29_FailedRefreshChangesNothing ==
    /\ jwksOut.kind \in {"NetworkError", "HttpStatus", "Parse"} =>
          /\ jwksOut.fetches = 1
          /\ jwksOut.jwks = None
          /\ cacheFile = jwksOut.before
    /\ (jwksOut.kind = "Ok" /\ jwksOut.fetches = 1) =>
          /\ HasCache(cacheFile)
          /\ Unwrap(cacheFile).jwks = Unwrap(jwksOut.jwks)
          /\ Unwrap(cacheFile).cached_at = jwksOut.at
          /\ Stale(jwksOut.before, jwksOut.at) => cacheFile # jwksOut.before

\* C29 witness: the fetch got an error status while the cache file held a
\* stale set, which is still in the file
C29_Witness ==
    /\ jwksOut.kind = "HttpStatus"
    /\ ~jwksOut.force
    /\ Stale(jwksOut.before, jwksOut.at)
    /\ cacheFile = jwksOut.before
    /\ Len(Unwrap(cacheFile).jwks.keys) > 0

\* C30: the key set a get_jwks call returns is one the requested issuer serves.
C30_KeySetOfRequestedIssuer ==
    jwksOut.kind = "Ok" =>
        /\ IsSome(jwksOut.jwks)
        /\ Unwrap(jwksOut.jwks) \in KeySets(jwksOut.url)

----------------------------------------------------------------------------
\* Properties of validation: key selection and the order of the checks

\* the first RS256 key of a list, by position
FirstRs256(keys) == CHOOSE i \in Rs256Keys(keys) : \A j \in Rs256Keys(keys) : i <= j

\* C23: with a key id resolved, validation selects the key of the obtained
\* set that has exactly that kid and fails with KeyNotFound when none has it,
\* RS256 keys in the set or not; with no key id resolved it selects the first
\* key in set order whose alg is RS256 and fails with KeyNotFound when there is
\* none.
C23_KeySelection ==
    GotKeys =>
        /\ (IsSome(valOut.kid) /\ WithKid(ObtainedKeys, Unwrap(valOut.kid)) # {}) =>
              /\ valOut.key = valOut.kid
              /\ valOut.kind # "KeyNotFound"
        /\ (IsSome(valOut.kid) /\ WithKid(ObtainedKeys, Unwrap(valOut.kid)) = {}) =>
              /\ valOut.key = None
              /\ valOut.kind = "KeyNotFound"
        /\ (valOut.kid = None /\ Rs256Keys(ObtainedKeys) # {}) =>
              /\ valOut.key = Some(ObtainedKeys[FirstRs256(ObtainedKeys)].kid)
              /\ valOut.kind # "KeyNotFound"
        /\ (valOut.kid = None /\ Rs256Keys(ObtainedKeys) = {}) =>
              /\ valOut.key = None
              /\ valOut.kind = "KeyNotFound"

\* C23 witness: the token names a key the set does not have, the set has two
\* RS256 keys, one of which made the token's signature: KeyNotFound
C23_Witness ==
    /\ GotKeys
    /\ valOut.kid = Some("k9")
    /\ token.sig = "m1"
    /\ Cardinality(Rs256Keys(ObtainedKeys)) = 2
    /\ valOut.kind = "KeyNotFound"

\* the validation selected an RSA key, which decode() then checks the token against
ReachedDecode ==
    /\ GotKeys
    /\ IsSome(valOut.key)
    /\ \E i \in DOMAIN ObtainedKeys :
          ObtainedKeys[i].kid = Unwrap(valOut.key) /\ ObtainedKeys[i].kty = "RSA"

\* C24: the signature is checked before a claim is trusted. Checked against
\* the selected key, a token whose alg is not RS256 ends UnsupportedAlgorithm
\* and an RS256 token whose signature the key does not verify ends
\* SignatureInvalid; IssuerMismatch, MissingSubject and success occur only for
\* a token whose RS256 signature the selected key verifies; MissingSubject
\* occurs only when the issuers match, and a verified, unexpired token with a
\* wrong issuer ends IssuerMismatch whether or not it has a subject.
C24_SignatureBeforeClaims ==
    /\ (ReachedDecode /\ token.alg # "RS256") => valOut.kind = "UnsupportedAlgorithm"
    /\ (ReachedDecode /\ token.alg = "RS256" /\ ~SelectedKeyVerifies) =>
          valOut.kind = "SignatureInvalid"
    /\ valOut.kind \in {"IssuerMismatch", "MissingSubject", "Ok"} =>
          /\ ReachedDecode
          /\ SelectedKeyVerifies
          /\ ~ExpiredAt(token, valOut.jwks.at)
    /\ valOut.kind \in {"MissingSubject", "Ok"} =>
          normalize_issuer(token.iss) = normalize_issuer(valOut.url)
    /\ valOut.kind = "MissingSubject" => token.sub = ""
    /\ valOut.kind = "Ok" => token.sub # ""
    /\ (ReachedDecode /\ SelectedKeyVerifies /\ ~ExpiredAt(token, valOut.jwks.at)
            /\ normalize_issuer(token.iss) # normalize_issuer(valOut.url)) =>
          valOut.kind = "IssuerMismatch"

\* C24 witness: a verified token with neither the right issuer nor a subject
\* ended IssuerMismatch
C24_Witness ==
    /\ valOut.kind = "IssuerMismatch"
    /\ token.sub = ""
    /\ SelectedKeyVerifies

----------------------------------------------------------------------------
\* Properties of the Harmony registry and of verify

\* the instances stored in the registry file
Stored == IF harmonyFile = None THEN << >> ELSE Unwrap(harmonyFile)

\* C27: after any sequence of add and remove operations from an empty
\* registry, no two stored instances share a label and no two share ip:port.
C27_NoDuplicateLabelOrAddress ==
    \A i, j \in DOMAIN Stored :
        i # j =>
            /\ Stored[i].label # Stored[j].label
            /\ ~(Stored[i].ip = Stored[j].ip /\ Stored[i].port = Stored[j].port)

\* C28: every stored instance has a non-empty id, no two stored instances
\* share an id, and remove_harmony_instance_by_id removes at most one instance.
C28_IdsUnique ==
    /\ \A i \in DOMAIN Stored : Stored[i].id # EmptyId
    /\ \A i, j \in DOMAIN Stored : i # j => Stored[i].id # Stored[j].id
    /\ regOut.op = "remove_by_id" => regOut.removed <= 1

\* a step of validate_jwt_token or of verify_token
ValidateOrVerifyStep == valOut' # valOut \/ jwksOut' # jwksOut \/ verOut' # verOut

\* a step of validate_jwt_token or verify_token leaves the credential file,
\* the registry and every other file as they were; validate_jwt_token may
\* change the key-set cache file, verify_token changes no file
CredentialUntouched ==
    ValidateOrVerifyStep =>
        /\ store' = store
        /\ harmonyFile' = harmonyFile
        /\ dir' = dir /\ inodes' = inodes
        /\ verOut' # verOut => cacheFile' = cacheFile
        /\ cacheFile' # cacheFile =>
             /\ valOut'.kind = "Ok" \/ valOut'.jwks.kind = "Ok"
             /\ valOut'.jwks.fetches = 1

\* C25: validate_jwt_token never changes the stored credential, whatever the
\* token, the issuer and the outcome; the only file it may change is the
\* key-set cache file, and only after a fetch; verify_token leaves the stored
\* credential (and every file) unchanged, also when validation fails.
C25_CredentialUntouched == [][CredentialUntouched]_vars

\* C25 witness: verify has failed on a stored credential, a validation has
\* succeeded and written the key-set cache, and the credential is as it was
C25_Witness ==
    /\ verOut = "VerifyFailed"
    /\ valOut.kind = "Ok"
    /\ HasCache(cacheFile)
    /\ HasCredential(store)
    /\ store = storeAtStart

====
